---- MODULE Spec2Model ----
(***************************************************************************)
(* ProximaForge: the tree-text parser (main.py,                            *)
(* parse_tree_structure_to_dict) and the structure materializer            *)
(* (create_project_structure of main.py and of appv2.py / appv3.py), the   *)
(* history file (save_history, load_history) and the visual tree editor    *)
(* of appv2.py / appv3.py.                                                 *)
(*                                                                         *)
(* A character is a one-token string; a line, a label and a text are       *)
(* sequences of characters.  "TAB" and "NL" stand for the tab and the      *)
(* newline, "BOX_V", "BOX_T", "BOX_L", "BOX_H" for the four box-drawing     *)
(* characters of main.py line 70.                                          *)
(*                                                                         *)
(* A hierarchy (a Python dict of dicts and None) is a sequence of entries  *)
(* [path, kind] in insertion order: path is the sequence of keys from the  *)
(* root mapping, kind is "folder" (a nested dict) or "file" (None).  The   *)
(* items of the mapping at path p are the entries one key longer than p,   *)
(* in the order of the sequence, which is the dict's insertion order.      *)
(***************************************************************************)
EXTENDS Integers, Sequences, FiniteSets, TLC

VARIABLES
    text,            \* parser: the argument tree_structure
    lines,           \* parser: the local variable lines
    idx,             \* parser: number of lines of `lines` already handled
    structure_dict,  \* parser: the hierarchy built so far
    stack,           \* parser: the stack of (current_dict, depth)
    raised,          \* parser: "none", or the exception that left the function
    placed,          \* history: one record per line inserted so far
    impl,            \* materializer: "main" (main.py) or "appv2" (appv2.py, appv3.py)
    structure,       \* materializer: the argument structure of the top-level call
    fs,              \* the filesystem: path |-> "dir", "rodir", "empty", "data"
    frames,          \* materializer: the calls in progress, innermost last
    pc,              \* materializer: where the innermost call stands
    log,             \* the lines written to log_text, oldest first
    run,             \* "first" or "second" top-level call on the same arguments
    runStart,        \* number of log lines written before the current run
    fs1,             \* history: the filesystem when the first run returned
    visited,         \* history: the nodes the current run has taken from items()
    acts,            \* history: the filesystem changes of the current run
    asked,           \* history: the overwrite questions of the current run
    failures,        \* history: the exceptions os.makedirs and open() raised
    intruded,        \* the paths another process has created meanwhile
    history_impl,    \* history: "main" (main.py) or "appv2" (appv2.py, appv3.py)
    history_file,    \* the file HISTORY_FILE: whether it exists, and its content
    prior_file,      \* history: HISTORY_FILE as it was at the start
    saves,           \* history: the arguments of the save_history calls so far
    last_save,       \* history: the last save_history call, if any
    loaded,          \* the outcome of load_history since the last save, if any
    editor_impl,     \* tree editor: "appv2" (appv2.py) or "appv3" (appv3.py)
    tree,            \* tree editor: the items of the tree widget, oldest first
    selection,       \* tree editor: the id of the selected item, 0 for none
    next_id,         \* tree editor: the id the next inserted item gets
    last_delete      \* history: the last run of delete_selected_item, if any

pvars == <<text, lines, idx, structure_dict, stack, raised, placed>>

mvars == <<impl, structure, fs, frames, pc, log, run, runStart, fs1, visited,
           acts, asked, failures>>

rvars == <<intruded>>

hvars == <<history_impl, history_file, prior_file, saves, last_save, loaded>>

evars == <<editor_impl, tree, selection, next_id, last_delete>>

\* the variables of the surroundings of the parser and the materializer
ovars == <<rvars, hvars, evars>>

vars == <<pvars, mvars, ovars>>

(***************************************************************************)
(* Characters                                                              *)
(***************************************************************************)
TAB == "TAB"
NL == "NL"
SP == " "

\* str.strip() with no argument strips whitespace.
Whitespace == {SP, TAB, NL}

\* The argument of lstrip at main.py line 70.
TreeChars == {"BOX_V", "BOX_T", "BOX_L", "BOX_H", "|", SP, TAB}

Range(s) == {s[i] : i \in 1..Len(s)}

RECURSIVE LStrip(_, _)
LStrip(s, chars) ==
    IF s # <<>> /\ Head(s) \in chars THEN LStrip(Tail(s), chars) ELSE s

RECURSIVE RStrip(_, _)
RStrip(s, chars) ==
    IF s # <<>> /\ s[Len(s)] \in chars
    THEN RStrip(SubSeq(s, 1, Len(s) - 1), chars)
    ELSE s

Strip(s) == RStrip(LStrip(s, Whitespace), Whitespace)

RECURSIVE Count(_, _)
Count(s, c) ==
    IF s = <<>> THEN 0 ELSE (IF Head(s) = c THEN 1 ELSE 0) + Count(Tail(s), c)

RECURSIVE SplitLines(_)
SplitLines(s) ==
    IF s = <<>> THEN <<>>
    ELSE IF NL \notin Range(s) THEN <<s>>
    ELSE LET k == CHOOSE i \in 1..Len(s) :
                      s[i] = NL /\ \A j \in 1..(i - 1) : s[j] # NL
         IN  <<SubSeq(s, 1, k - 1)>> \o SplitLines(SubSeq(s, k + 1, Len(s)))

RECURSIVE JoinLines(_)
JoinLines(ls) ==
    IF ls = <<>> THEN <<>>
    ELSE IF Len(ls) = 1 THEN ls[1]
    ELSE ls[1] \o <<NL>> \o JoinLines(Tail(ls))

(***************************************************************************)
(* parse_tree_structure_to_dict, line by line                              *)
(***************************************************************************)
\* main.py line 65
Lines(t) == SplitLines(Strip(t))

\* main.py line 70
CleanedLine(line) == Strip(LStrip(line, TreeChars))

\* main.py line 77: everything the two strips removed, at either end
LeadingWhitespace(line) == Len(line) - Len(CleanedLine(line))

\* main.py lines 78-81
Depth(line) ==
    LET lead == SubSeq(line, 1, LeadingWhitespace(line))
    IN  IF TAB \in Range(lead) THEN Count(lead, TAB)
        ELSE LeadingWhitespace(line) \div 4

\* main.py line 84
IsFolderLabel(cleaned) ==
    cleaned[Len(cleaned)] = "/" \/ "." \notin Range(cleaned)

\* FolderName without the rstrip: the trailing separators stay in the key
FolderNameKeepsSlash(cleaned) == cleaned

\* main.py line 86
FolderName(cleaned) == RStrip(cleaned, {"/"})

\* key in current_dict, for the mapping at path `node`
HasKey(d, node, key) == \E i \in 1..Len(d) : d[i].path = Append(node, key)

EntryAt(d, p) == d[CHOOSE i \in 1..Len(d) : d[i].path = p]

\* whether the object at path p is a dict (the root mapping is)
IsDict(d, p) ==
    p = <<>> \/ (\E i \in 1..Len(d) : d[i].path = p /\ d[i].kind = "folder")

IsStrictPrefix(p, q) == Len(p) < Len(q) /\ SubSeq(q, 1, Len(p)) = p

RECURSIVE SelectEntries(_, _)
SelectEntries(d, p) ==
    IF d = <<>> THEN <<>>
    ELSE IF IsStrictPrefix(p, Head(d).path) THEN SelectEntries(Tail(d), p)
    ELSE <<Head(d)>> \o SelectEntries(Tail(d), p)

\* SetFolder without the `not in` test: the name always gets a fresh mapping
SetFolderAlwaysFresh(d, node, key) ==
    IF HasKey(d, node, key)
    THEN LET kept == SelectEntries(d, Append(node, key))
         IN  [i \in 1..Len(kept) |->
                 IF kept[i].path = Append(node, key)
                 THEN [path |-> kept[i].path, kind |-> "folder"]
                 ELSE kept[i]]
    ELSE Append(d, [path |-> Append(node, key), kind |-> "folder"])

\* main.py lines 95-96: if folder_name not in current_dict: ... = {}
SetFolder(d, node, key) ==
    IF HasKey(d, node, key) THEN d
    ELSE Append(d, [path |-> Append(node, key), kind |-> "folder"])

\* main.py line 110: current_dict[file_name] = None (an existing key keeps
\* its place; the value it had, a dict with all its items, is dropped)
SetFile(d, node, key) ==
    IF HasKey(d, node, key)
    THEN LET kept == SelectEntries(d, Append(node, key))
         IN  [i \in 1..Len(kept) |->
                 IF kept[i].path = Append(node, key)
                 THEN [path |-> kept[i].path, kind |-> "file"]
                 ELSE kept[i]]
    ELSE Append(d, [path |-> Append(node, key), kind |-> "file"])

\* PopStack with > for >=: an entry of the line's own depth stays
RECURSIVE PopStackWhileDeeper(_, _)
PopStackWhileDeeper(stk, depth) ==
    IF stk = <<>> THEN <<>>
    ELSE IF stk[Len(stk)].depth > depth
    THEN PopStackWhileDeeper(SubSeq(stk, 1, Len(stk) - 1), depth)
    ELSE stk

\* main.py lines 90-92 and 105-107: pop while the top's depth >= depth;
\* stack[-1] on an emptied stack is an IndexError (<<>> here)
RECURSIVE PopStack(_, _)
PopStack(stk, depth) ==
    IF stk = <<>> THEN <<>>
    ELSE IF stk[Len(stk)].depth >= depth
    THEN PopStack(SubSeq(stk, 1, Len(stk) - 1), depth)
    ELSE stk

\* main.py line 66
InitialStack == <<[node |-> <<>>, depth |-> -1]>>

\* One iteration of the loop of main.py lines 68-110 on a parser state
\* st = [dict, stack, raised, placed].
ProcessLine(st, line, n) ==
    LET cleaned == CleanedLine(line) IN
    IF cleaned = <<>> THEN st
    ELSE
      LET depth == Depth(line)
          stk   == PopStack(st.stack, depth)
      IN
      IF stk = <<>>
      THEN [st EXCEPT !.stack = stk, !.raised = "IndexError"]
      ELSE
        LET parent == stk[Len(stk)].node IN
        IF ~IsDict(st.dict, parent)
        THEN [st EXCEPT !.stack = stk, !.raised = "TypeError"]
        ELSE IF IsFolderLabel(cleaned)
        THEN [dict   |-> SetFolder(st.dict, parent, FolderName(cleaned)),
              stack  |-> Append(stk, [node  |-> Append(parent, FolderName(cleaned)),
                                      depth |-> depth]),
              raised |-> "none",
              placed |-> Append(st.placed,
                                [line |-> n, depth |-> depth, folder |-> TRUE,
                                 key |-> FolderName(cleaned), parent |-> parent])]
        ELSE [dict   |-> SetFile(st.dict, parent, cleaned),
              stack  |-> stk,
              raised |-> "none",
              placed |-> Append(st.placed,
                                [line |-> n, depth |-> depth, folder |-> FALSE,
                                 key |-> cleaned, parent |-> parent])]

\* main.py lines 64-66
InitialParse ==
    [dict |-> <<>>, stack |-> InitialStack, raised |-> "none", placed |-> <<>>]

\* The whole function on a text: the loop runs until a line raises.
RECURSIVE ParseFrom(_, _, _)
ParseFrom(st, ls, n) ==
    IF n > Len(ls) \/ st.raised # "none" THEN st
    ELSE ParseFrom(ProcessLine(st, ls[n], n), ls, n + 1)

ParseTreeStructureToDict(t) == ParseFrom(InitialParse, Lines(t), 1)

(***************************************************************************)
(* Input texts                                                             *)
(***************************************************************************)
MaxLines == 3

FourSpaces == <<SP, SP, SP, SP>>

\* no indentation, one 4-space unit, one tab, one drawn branch
Indents == {<<>>, FourSpaces, <<TAB>>, <<"BOX_T", "BOX_H", "BOX_H", SP>>}

\* a name without a dot, a dotted name, a dotted name with the separator
Labels == {<<"a">>, <<"b", ".", "c">>, <<"b", ".", "c", "/">>}

InputLines ==
    {i \o l : i \in Indents, l \in Labels}
    \cup {<<"a">> \o FourSpaces,               \* trailing blanks
          FourSpaces \o FourSpaces \o <<"a">>, \* two units
          <<"/">>,                             \* a bare separator
          <<".", ".", "/">>,                   \* a parent reference
          <<>>}                                \* a blank line

\* a folder written twice, with a child under each occurrence
MergeText ==
    JoinLines(<< <<"a">>, FourSpaces \o <<"b", ".", "c">>,
                 <<"a">>, FourSpaces \o <<"a">> >>)

InputTexts ==
    {JoinLines(ls) : ls \in UNION {[1..n -> InputLines] : n \in 0..MaxLines}}
    \cup {MergeText}

(***************************************************************************)
(* Paths and the filesystem                                                *)
(*                                                                         *)
(* A filesystem path is the sequence of its components from the root       *)
(* directory, <<>>.  fs maps every existing path to its kind: "dir", a     *)
(* directory; "rodir", a directory in which nothing may be created;        *)
(* "empty", a zero-length file; "data", a file with content.               *)
(***************************************************************************)
RECURSIVE SplitOn(_, _)
SplitOn(s, c) ==
    IF c \notin Range(s) THEN <<s>>
    ELSE LET k == CHOOSE i \in 1..Len(s) :
                      s[i] = c /\ \A j \in 1..(i - 1) : s[j] # c
         IN  <<SubSeq(s, 1, k - 1)>> \o SplitOn(SubSeq(s, k + 1, Len(s)), c)

RECURSIVE Resolve(_, _)
Resolve(p, comps) ==
    IF comps = <<>> THEN p
    ELSE LET c == Head(comps) IN
         IF c = <<>> \/ c = <<".">> THEN Resolve(p, Tail(comps))
         ELSE IF c = <<".", ".">>
         THEN Resolve(IF p = <<>> THEN p ELSE SubSeq(p, 1, Len(p) - 1),
                      Tail(comps))
         ELSE Resolve(Append(p, c), Tail(comps))

\* os.path.normpath(os.path.join(base_path, key)), main.py line 29: a key
\* that starts with the separator replaces base_path
CurrentPath(base, key) ==
    IF key # <<>> /\ Head(key) = "/"
    THEN Resolve(<<>>, SplitOn(key, "/"))
    ELSE Resolve(base, SplitOn(key, "/"))

\* a path with an embedded null byte: the os functions raise ValueError
HasNul(p) == \E i \in 1..Len(p) : "NUL" \in Range(p[i])

\* os.path.exists: False for a path it cannot encode
Exists(f, p) == ~HasNul(p) /\ p \in DOMAIN f

Parent(p) == SubSeq(p, 1, Len(p) - 1)

Prefixes(p) == {SubSeq(p, 1, n) : n \in 0..Len(p)}

\* os.makedirs(p, exist_ok): "ok", or the exception class
MakeDirsOutcome(f, p, exist_ok) ==
    IF HasNul(p) THEN "ValueError"
    ELSE IF \E q \in Prefixes(p) : q \in DOMAIN f /\ f[q] \in {"empty", "data"}
    THEN "OSError"
    ELSE IF p \in DOMAIN f THEN (IF exist_ok THEN "ok" ELSE "OSError")
    ELSE LET top == CHOOSE q \in Prefixes(p) :
                        /\ q \in DOMAIN f
                        /\ \A r \in Prefixes(p) : r \in DOMAIN f => Len(r) <= Len(q)
         IN  IF f[top] = "rodir" THEN "PermissionError" ELSE "ok"

\* the filesystem after a successful os.makedirs(p)
MakeDirs(f, p) ==
    [q \in DOMAIN f \cup Prefixes(p) |-> IF q \in DOMAIN f THEN f[q] ELSE "dir"]

\* open(p, 'w'): "ok", or the exception class
OpenOutcome(f, p) ==
    IF HasNul(p) THEN "ValueError"
    ELSE IF p \in DOMAIN f
    THEN (IF f[p] \in {"dir", "rodir"} THEN "OSError" ELSE "ok")
    ELSE IF p = <<>> \/ Parent(p) \notin DOMAIN f THEN "OSError"
    ELSE IF f[Parent(p)] = "rodir" THEN "PermissionError"
    ELSE IF f[Parent(p)] = "dir" THEN "ok"
    ELSE "OSError"

\* the filesystem after a successful open(p, 'w') and close
OpenW(f, p) == [q \in DOMAIN f \cup {p} |-> IF q = p THEN "empty" ELSE f[q]]

(***************************************************************************)
(* Hierarchies handed to the materializer                                  *)
(***************************************************************************)
\* Items with the order of insertion lost: the newest item comes first
RECURSIVE ItemsReversed(_, _)
ItemsReversed(d, node) ==
    IF d = <<>> THEN <<>>
    ELSE IF Len(Head(d).path) = Len(node) + 1 /\ IsStrictPrefix(node, Head(d).path)
    THEN ItemsReversed(Tail(d), node) \o <<Head(d)>>
    ELSE ItemsReversed(Tail(d), node)

\* structure.items() of the mapping at path `node`, in insertion order
RECURSIVE Items(_, _)
Items(d, node) ==
    IF d = <<>> THEN <<>>
    ELSE IF Len(Head(d).path) = Len(node) + 1 /\ IsStrictPrefix(node, Head(d).path)
    THEN <<Head(d)>> \o Items(Tail(d), node)
    ELSE Items(Tail(d), node)

Key(e) == e.path[Len(e.path)]

Folder(p) == [path |-> p, kind |-> "folder"]
File(p) == [path |-> p, kind |-> "file"]

kA == <<"A">>
kB == <<"B">>
kC == <<"C">>
kD == <<"D">>
kX == <<"x">>
kXYZ == <<"x", "/", "y", ".", "z">>
kNul == <<"NUL", ".", "c">>

Structures ==
    { \* {"A": {"B": null}}
      <<Folder(<<kA>>), File(<<kA, kB>>)>>,
      \* {"A": {"B": null, "C": {"D": null}}, "D": null}
      <<Folder(<<kA>>), File(<<kA, kB>>), Folder(<<kA, kC>>),
        File(<<kA, kC, kD>>), File(<<kD>>)>>,
      \* {"x/y.z": null, "x": {}}, as parsed from the lines "x/y.z" and "x"
      <<File(<<kXYZ>>), Folder(<<kX>>)>>,
      \* {"A": {"\0.c": null, "B": null}, "D": null}
      <<Folder(<<kA>>), File(<<kA, kNul>>), File(<<kA, kB>>), File(<<kD>>)>> }

BasePath == << <<"base">> >>

EmptyBase == (<<>> :> "dir") @@ (BasePath :> "dir")

InitialFilesystems ==
    { EmptyBase,
      (<<>> :> "dir") @@ (BasePath :> "rodir"),
      EmptyBase @@ (Append(BasePath, kA) :> "dir"),
      EmptyBase @@ (Append(BasePath, kA) :> "rodir"),
      EmptyBase @@ (Append(BasePath, kA) :> "data"),
      EmptyBase @@ (Append(BasePath, kA) :> "dir")
                @@ (BasePath \o <<kA, kB>> :> "data"),
      EmptyBase @@ (Append(BasePath, kA) :> "dir")
                @@ (BasePath \o <<kA, kB>> :> "dir")
                @@ (Append(BasePath, kD) :> "data") }

(***************************************************************************)
(* create_project_structure as a state machine                             *)
(*                                                                         *)
(* A frame is one call in progress: base is its base_path, node the path   *)
(* (in `structure`) of the mapping it iterates, i the position of the      *)
(* item it is at.  Only the innermost call runs; pc says where it stands:  *)
(* "loop" at the for statement, "makedirs" before os.makedirs, "ask"       *)
(* before the overwrite question, "open" before open(); "done" once the    *)
(* top-level call has returned.  A log line is [kind, node, path]; the     *)
(* time stamp that main.py puts in front of each line is left out.         *)
(***************************************************************************)
Impls == {"main", "appv2"}

TopFrame == frames[Len(frames)]

FrameItems == Items(structure, TopFrame.node)

Item == FrameItems[TopFrame.i]

\* main.py line 29, appv2.py line 69 (the path os resolves is the same)
ItemPath == CurrentPath(TopFrame.base, Key(Item))

InitialFrames == <<[base |-> BasePath, node |-> <<>>, i |-> 1]>>

LogLine(kind, node, path) == [kind |-> kind, node |-> node, path |-> path]

\* `continue`, or the end of the loop body: on to the next item
Advance(fr) == [fr EXCEPT ![Len(fr)].i = @ + 1]

\* the recursive call of main.py line 39, appv2.py line 77
Recurse(fr, e, cp) == Append(fr, [base |-> cp, node |-> e.path, i |-> 1])

\* FolderBranch without the os.path.exists test: os.makedirs is always called
FolderBranchAlwaysCreate(f, cp) == "makedirs"

\* main.py line 32, appv2.py line 71: a folder item
FolderBranch(f, cp) == IF ~Exists(f, cp) THEN "makedirs" ELSE "recurse"

\* FileBranch without the os.path.exists test: the file is opened at once
FileBranchNoCheck(im, f, cp) == "open"

\* main.py line 42: a file item (appv2.py lines 78-81 open at once)
FileBranch(im, f, cp) == IF im = "main" /\ Exists(f, cp) THEN "ask" ELSE "open"

\* AfterAnswer without `if not response`: the answer is not looked at
AfterAnswerIgnored(response) == "open"

\* main.py lines 44-46
AfterAnswer(response) == IF response THEN "open" ELSE "skip"

\* main.py line 34 passes exist_ok=True, appv2.py line 73 does not
ExistOk(im) == im = "main"

\* main.py lines 36-38 `continue`; appv2.py lines 75-77 fall through to the
\* recursive call
AfterFolderError(im, fr, e, cp) ==
    IF im = "main" THEN Advance(fr) ELSE Recurse(fr, e, cp)

\* main.py lines 51-57 and appv2.py lines 83-84: the line logged for an
\* exception of open(), and whether the exception leaves the loop
FileErrorKind(im, exc) ==
    IF im = "appv2" THEN "failed_file"
    ELSE IF exc = "PermissionError" THEN "perm_denied"
    ELSE IF exc = "OSError" THEN "os_error"
    ELSE "failed"

\* main.py line 55 is written by every call that ends its loop; appv2.py
\* writes no such line
CompletionLines(im, fr) ==
    IF im = "main"
    THEN <<LogLine("completed", fr[Len(fr)].node, fr[Len(fr)].base)>>
    ELSE <<>>

\* the call returns: its caller goes on after the recursive call
ReturnTo(fr) ==
    IF Len(fr) = 1 THEN <<>> ELSE Advance(SubSeq(fr, 1, Len(fr) - 1))

PcAfterReturn(fr) == IF Len(fr) = 1 THEN "done" ELSE "loop"

\* the file does not exist; the file exists and holds the tokens c
Absent == [exists |-> FALSE, content |-> <<>>]

FileOf(c) == [exists |-> TRUE, content |-> c]

\* no other process touches the base path
RaceIdle == intruded = <<>>

\* save_history and load_history are not called
HistoryIdle ==
    /\ history_impl = "main"
    /\ history_file = Absent
    /\ prior_file = Absent
    /\ saves = <<>>
    /\ last_save = <<>>
    /\ loaded = <<>>

\* the tree editor is not used
EditorIdle ==
    /\ editor_impl = "appv2"
    /\ tree = <<>>
    /\ selection = 0
    /\ next_id = 1
    /\ last_delete = <<>>

OthersIdle == RaceIdle /\ HistoryIdle /\ EditorIdle

\* the parser's variables while the materializer runs
ParserIdle ==
    /\ text = <<>>
    /\ lines = <<>>
    /\ idx = 0
    /\ structure_dict = <<>>
    /\ stack = InitialStack
    /\ raised = "none"
    /\ placed = <<>>

MaterializerInit ==
    /\ ParserIdle
    /\ OthersIdle
    /\ impl \in Impls
    /\ structure \in Structures
    /\ fs \in InitialFilesystems
    /\ frames = InitialFrames
    /\ pc = "loop"
    /\ log = <<>>
    /\ run = "first"
    /\ runStart = 0
    /\ fs1 = fs
    /\ visited = <<>>
    /\ acts = <<>>
    /\ asked = <<>>
    /\ failures = <<>>

\* for key, value in structure.items(): the next item, and the test that
\* chooses its branch
NextItem ==
    /\ pc = "loop"
    /\ frames # <<>>
    /\ TopFrame.i <= Len(FrameItems)
    /\ visited' = Append(visited, [node |-> Item.path, path |-> ItemPath,
                                    was |-> IF Exists(fs, ItemPath) THEN fs[ItemPath]
                                            ELSE "absent"])
    /\ IF Item.kind = "folder"
       THEN IF FolderBranch(fs, ItemPath) = "makedirs"
            THEN pc' = "makedirs" /\ UNCHANGED frames
            ELSE pc' = "loop" /\ frames' = Recurse(frames, Item, ItemPath)
       ELSE pc' = FileBranch(impl, fs, ItemPath) /\ UNCHANGED frames
    /\ UNCHANGED <<impl, structure, fs, log, run, runStart, fs1, acts, asked,
                   failures, pvars, ovars>>

\* os.makedirs and what follows it
MakeDirsStep ==
    /\ pc = "makedirs"
    /\ pc' = "loop"
    /\ IF MakeDirsOutcome(fs, ItemPath, ExistOk(impl)) = "ok"
       THEN /\ fs' = MakeDirs(fs, ItemPath)
            /\ acts' = Append(acts, [op |-> "mkdir", node |-> Item.path,
                                     path |-> ItemPath])
            /\ log' = Append(log, LogLine("created_folder", Item.path, ItemPath))
            /\ frames' = Recurse(frames, Item, ItemPath)
            /\ UNCHANGED failures
       ELSE /\ log' = Append(log, LogLine("error_folder", Item.path, ItemPath))
            /\ frames' = AfterFolderError(impl, frames, Item, ItemPath)
            /\ failures' = Append(failures,
                   [op |-> "makedirs", node |-> Item.path, path |-> ItemPath,
                    exc |-> MakeDirsOutcome(fs, ItemPath, ExistOk(impl))])
            /\ UNCHANGED <<fs, acts>>
    /\ UNCHANGED <<impl, structure, run, runStart, fs1, visited, asked, pvars, ovars>>

\* messagebox.askyesno and what follows it
AskOverwrite ==
    /\ pc = "ask"
    /\ \E response \in BOOLEAN :
         /\ asked' = Append(asked, [node |-> Item.path, path |-> ItemPath,
                                    response |-> response])
         /\ IF AfterAnswer(response) = "open"
            THEN pc' = "open" /\ UNCHANGED <<frames, log>>
            ELSE /\ pc' = "loop"
                 /\ log' = Append(log, LogLine("skipped", Item.path, ItemPath))
                 /\ frames' = Advance(frames)
    /\ UNCHANGED <<impl, structure, fs, run, runStart, fs1, visited, acts, failures,
                   pvars, ovars>>

\* open(current_path, 'w') and what follows it
OpenFile ==
    /\ pc = "open"
    /\ LET exc == OpenOutcome(fs, ItemPath) IN
       IF exc = "ok"
       THEN /\ fs' = OpenW(fs, ItemPath)
            /\ acts' = Append(acts,
                   [op |-> IF ItemPath \in DOMAIN fs THEN "truncate" ELSE "create",
                    node |-> Item.path, path |-> ItemPath])
            /\ log' = Append(log, LogLine("created_file", Item.path, ItemPath))
            /\ frames' = Advance(frames)
            /\ pc' = "loop"
            /\ UNCHANGED failures
       ELSE /\ UNCHANGED <<fs, acts>>
            /\ failures' = Append(failures,
                   [op |-> "open", node |-> Item.path, path |-> ItemPath,
                    exc |-> exc])
            /\ IF FileErrorKind(impl, exc) = "failed"
               THEN \* main.py line 56: the handler around the loop ends the call
                    /\ log' = Append(log, LogLine("failed", TopFrame.node,
                                                  TopFrame.base))
                    /\ frames' = ReturnTo(frames)
                    /\ pc' = PcAfterReturn(frames)
               ELSE /\ log' = Append(log, LogLine(FileErrorKind(impl, exc),
                                                  Item.path, ItemPath))
                    /\ frames' = Advance(frames)
                    /\ pc' = "loop"
    /\ UNCHANGED <<impl, structure, run, runStart, fs1, visited, asked, pvars, ovars>>

\* the loop is exhausted: main.py line 55, then the call returns
Return ==
    /\ pc = "loop"
    /\ frames # <<>>
    /\ TopFrame.i > Len(FrameItems)
    /\ log' = log \o CompletionLines(impl, frames)
    /\ frames' = ReturnTo(frames)
    /\ pc' = PcAfterReturn(frames)
    /\ UNCHANGED <<impl, structure, fs, run, runStart, fs1, visited, acts, asked,
                   failures, pvars, ovars>>

\* the same structure is materialized into the same base path again
SecondRun ==
    /\ pc = "done"
    /\ run = "first"
    /\ run' = "second"
    /\ fs1' = fs
    /\ runStart' = Len(log)
    /\ frames' = InitialFrames
    /\ pc' = "loop"
    /\ visited' = <<>>
    /\ acts' = <<>>
    /\ asked' = <<>>
    /\ failures' = <<>>
    /\ UNCHANGED <<impl, structure, fs, log, pvars, ovars>>

MaterializerNext ==
    \/ NextItem
    \/ MakeDirsStep
    \/ AskOverwrite
    \/ OpenFile
    \/ Return
    \/ SecondRun

\* the materializer's variables while the parser runs
MaterializerIdle ==
    /\ impl = "main"
    /\ structure = <<>>
    /\ fs = EmptyBase
    /\ frames = <<>>
    /\ pc = "done"
    /\ log = <<>>
    /\ run = "second"
    /\ runStart = 0
    /\ fs1 = EmptyBase
    /\ visited = <<>>
    /\ acts = <<>>
    /\ asked = <<>>
    /\ failures = <<>>

(***************************************************************************)
(* The parser as a state machine: one step per line of the loop            *)
(***************************************************************************)
ParserState ==
    [dict |-> structure_dict, stack |-> stack, raised |-> raised,
     placed |-> placed]

ParserInit ==
    /\ MaterializerIdle
    /\ OthersIdle
    /\ text \in InputTexts
    /\ lines = Lines(text)
    /\ idx = 0
    /\ structure_dict = InitialParse.dict
    /\ stack = InitialParse.stack
    /\ raised = InitialParse.raised
    /\ placed = InitialParse.placed

\* one iteration of `for line in lines` (main.py lines 68-110)
ParseLine ==
    /\ raised = "none"
    /\ idx < Len(lines)
    /\ LET st == ProcessLine(ParserState, lines[idx + 1], idx + 1) IN
         /\ structure_dict' = st.dict
         /\ stack' = st.stack
         /\ raised' = st.raised
         /\ placed' = st.placed
    /\ idx' = idx + 1
    /\ UNCHANGED <<text, lines, mvars, ovars>>

\* main.py line 112 has been reached
Returned == raised = "none" /\ idx = Len(lines)

ParserNext == ParseLine


SpecParser == ParserInit /\ [][ParserNext]_vars

SpecMaterializer == MaterializerInit /\ [][MaterializerNext]_vars

(***************************************************************************)
(* The materializer next to another process                                *)
(*                                                                         *)
(* Between os.path.exists (main.py lines 32 and 42) and the create step    *)
(* (lines 34 and 48) the item's path does not exist; another process may   *)
(* create it there, as a directory or as a file with content.              *)
(***************************************************************************)
MaxIntrusions == 1

OtherProcessCreates ==
    /\ pc \in {"makedirs", "open"}
    /\ Len(intruded) < MaxIntrusions
    /\ ~HasNul(ItemPath)
    /\ ItemPath \notin DOMAIN fs
    /\ Parent(ItemPath) \in DOMAIN fs
    /\ fs[Parent(ItemPath)] \in {"dir", "rodir"}
    /\ \E kind \in {"dir", "data"} :
         /\ fs' = (ItemPath :> kind) @@ fs
         /\ intruded' = Append(intruded, [node |-> Item.path, path |-> ItemPath,
                                          kind |-> kind, run |-> run])
    /\ UNCHANGED <<impl, structure, frames, pc, log, run, runStart, fs1, visited,
                   acts, asked, failures, pvars, hvars, evars>>

RaceInit == MaterializerInit

RaceNext ==
    \/ MaterializerNext
    \/ OtherProcessCreates

SpecRace == RaceInit /\ [][RaceNext]_vars

(***************************************************************************)
(* From the text to the filesystem (create_structure, main.py lines        *)
(* 296-311): the text of the text area is parsed and the hierarchy handed  *)
(* to create_project_structure.                                            *)
(***************************************************************************)
MaxPipelineLines == 2

\* a folder, a file, a parent reference, an absolute path, a file addressed
\* through the parent
PipelineLabels ==
    {<<"a">>, <<"b", ".", "c">>, <<".", ".", "/">>, <<"/", "a">>,
     <<".", ".", "/", "b", ".", "c">>}

PipelineLines == {i \o l : i \in {<<>>, FourSpaces}, l \in PipelineLabels}

PipelineTexts ==
    {JoinLines(ls) :
        ls \in UNION {[1..n -> PipelineLines] : n \in 1..MaxPipelineLines}}

PipelineInit ==
    /\ OthersIdle
    /\ text \in PipelineTexts
    /\ Strip(text) # <<>>
    /\ ParseTreeStructureToDict(text).raised = "none"
    /\ lines = Lines(text)
    /\ idx = Len(lines)
    /\ structure_dict = ParseTreeStructureToDict(text).dict
    /\ stack = ParseTreeStructureToDict(text).stack
    /\ raised = "none"
    /\ placed = ParseTreeStructureToDict(text).placed
    /\ impl \in Impls
    /\ structure = structure_dict
    /\ fs = EmptyBase
    /\ frames = InitialFrames
    /\ pc = "loop"
    /\ log = <<>>
    /\ run = "first"
    /\ runStart = 0
    /\ fs1 = fs
    /\ visited = <<>>
    /\ acts = <<>>
    /\ asked = <<>>
    /\ failures = <<>>

PipelineNext == MaterializerNext

SpecPipeline == PipelineInit /\ [][PipelineNext]_vars

(***************************************************************************)
(* The history file (save_history and load_history)                        *)
(*                                                                         *)
(* The content of HISTORY_FILE is a sequence of tokens: "[", "]", "," and  *)
(* the white space of JSON, one token per record (the JSON object of one   *)
(* {name: hierarchy} mapping), and "x" for text that is no JSON.           *)
(***************************************************************************)
Records == {"r1", "r2"}

JsonWhitespace == {SP, NL}

\* a Python value read from JSON: a list of records, or one record (a dict)
PyList(h) == [raised |-> "none", type |-> "list", items |-> h]

PyDict(r) == [raised |-> "none", type |-> "dict", items |-> <<r>>]

Raise(exc) == [raised |-> exc, type |-> "none", items |-> <<>>]

\* json.dump(history, f, indent=4): one item per line, indented
RECURSIVE DumpItems(_)
DumpItems(h) ==
    IF h = <<>> THEN <<>>
    ELSE <<NL>> \o FourSpaces \o <<Head(h)>>
         \o (IF Len(h) > 1 THEN <<",">> ELSE <<>>) \o DumpItems(Tail(h))

JsonDump(h) ==
    IF h = <<>> THEN <<"[", "]">>
    ELSE <<"[">> \o DumpItems(h) \o <<NL, "]">>

\* the items between the brackets: record ("," record)*
RECURSIVE LoadItems(_)
LoadItems(toks) ==
    IF toks = <<>> \/ Head(toks) \notin Records THEN Raise("JSONDecodeError")
    ELSE IF Len(toks) = 1 THEN PyList(toks)
    ELSE IF toks[2] # "," THEN Raise("JSONDecodeError")
    ELSE LET rest == LoadItems(SubSeq(toks, 3, Len(toks)))
         IN  IF rest.raised = "none"
             THEN PyList(<<Head(toks)>> \o rest.items)
             ELSE rest

\* json.load(f): the value, or JSONDecodeError
JsonLoad(content) ==
    LET toks == SelectSeq(content, LAMBDA c : c \notin JsonWhitespace) IN
    IF toks = <<>> THEN Raise("JSONDecodeError")
    ELSE IF Len(toks) = 1 /\ toks[1] \in Records THEN PyDict(toks[1])
    ELSE IF Len(toks) >= 2 /\ Head(toks) = "[" /\ toks[Len(toks)] = "]"
    THEN IF Len(toks) = 2 THEN PyList(<<>>)
         ELSE LoadItems(SubSeq(toks, 2, Len(toks) - 1))
    ELSE Raise("JSONDecodeError")

HistoryImpls == {"main", "appv2"}

\* main.py lines 120-124, appv2.py lines 11-18: the history save_history
\* starts from, or the exception that leaves the outer try block
ReadForSave(im, file) ==
    IF ~file.exists THEN PyList(<<>>)
    ELSE IF JsonLoad(file.content).raised = "none" THEN JsonLoad(file.content)
    ELSE IF im = "main" THEN Raise("JSONDecodeError")
    ELSE PyList(<<>>)

\* AppendRecord that starts a new list instead of appending to the old one
AppendRecordToEmpty(h, structure_) == <<structure_>>

\* main.py line 126, appv2.py line 20: history.append(structure)
AppendRecord(h, structure_) == Append(h, structure_)

\* the file after save_history(structure): rewritten, or left as it was when
\* the except clause of main.py line 129, appv2.py line 23 is reached (a
\* dict has no append)
SaveResult(im, file, structure_) ==
    LET read == ReadForSave(im, file) IN
    IF read.raised # "none" THEN [raised |-> read.raised, file |-> file]
    ELSE IF read.type # "list" THEN [raised |-> "AttributeError", file |-> file]
    ELSE [raised |-> "none",
          file   |-> FileOf(JsonDump(AppendRecord(read.items, structure_)))]

\* main.py lines 137-140, appv2.py lines 28-34
LoadResult(im, file) ==
    IF ~file.exists THEN PyList(<<>>)
    ELSE IF JsonLoad(file.content).raised = "none" THEN JsonLoad(file.content)
    ELSE IF im = "main" THEN Raise("JSONDecodeError")
    ELSE PyList(<<>>)

MaxSaves == 2

\* an empty file, cut-off JSON, text that is no JSON
CorruptFiles == {FileOf(<<>>), FileOf(<<"[", NL, "r1", ",">>), FileOf(<<"x">>)}

\* arrays as json.dump writes them and as written by hand
ArrayFiles ==
    {FileOf(<<"[", "]">>), FileOf(JsonDump(<<"r1">>)),
     FileOf(<<"[", "r2", ",", "r1", "]">>)}

\* one JSON object, not in an array
ObjectFiles == {FileOf(<<"r1">>)}

HistoryFiles == {Absent} \cup CorruptFiles \cup ArrayFiles \cup ObjectFiles

HistoryInit ==
    /\ ParserIdle
    /\ MaterializerIdle
    /\ RaceIdle
    /\ EditorIdle
    /\ history_impl \in HistoryImpls
    /\ history_file \in HistoryFiles
    /\ prior_file = history_file
    /\ saves = <<>>
    /\ last_save = <<>>
    /\ loaded = <<>>

\* save_history(structure)
SaveHistory ==
    /\ Len(saves) < MaxSaves
    /\ \E structure_ \in Records :
         LET res == SaveResult(history_impl, history_file, structure_) IN
         /\ history_file' = res.file
         /\ saves' = Append(saves, structure_)
         /\ last_save' = <<[before |-> history_file, record |-> structure_,
                            raised |-> res.raised, after |-> res.file]>>
    /\ loaded' = <<>>
    /\ UNCHANGED <<history_impl, prior_file, pvars, mvars, rvars, evars>>

\* load_history()
LoadHistory ==
    /\ loaded = <<>>
    /\ loaded' = <<[file |-> history_file,
                    result |-> LoadResult(history_impl, history_file)]>>
    /\ UNCHANGED <<history_impl, history_file, prior_file, saves, last_save,
                   pvars, mvars, rvars, evars>>

HistoryNext ==
    \/ SaveHistory
    \/ LoadHistory

SpecHistory == HistoryInit /\ [][HistoryNext]_vars

(***************************************************************************)
(* The visual tree editor (appv2.py, appv3.py)                             *)
(*                                                                         *)
(* An item of the tree widget is [id, parent, text, type]: parent is the   *)
(* id of the item it hangs under, 0 for the top level; the children of an  *)
(* item are listed in the order of insertion (every insert is at the end). *)
(***************************************************************************)
EditorImpls == {"appv2", "appv3"}

MaxItems == 3

\* what the user may type into the name dialog
ElementNames == {<<"a">>, <<"b", ".", "c">>}

ItemIds(t) == {t[i].id : i \in 1..Len(t)}

ItemOf(t, id) == t[CHOOSE i \in 1..Len(t) : t[i].id = id]

\* tree.get_children(parent), appv3.py parent.child(i): oldest first
GetChildren(t, parent) == SelectSeq(t, LAMBDA it : it.parent = parent)

\* whether item id is the item top, or hangs somewhere under it
RECURSIVE IsWithin(_, _, _)
IsWithin(t, id, top) ==
    IF id = top THEN TRUE
    ELSE IF id = 0 THEN FALSE
    ELSE IsWithin(t, ItemOf(t, id).parent, top)

\* structure[item_text] = value: a key already present keeps its place and
\* loses its old value
AssignKey(acc, path, kind, sub) ==
    IF \E i \in 1..Len(acc) : acc[i].path = path
    THEN LET kept == SelectEntries(acc, path)
         IN  [i \in 1..Len(kept) |->
                 IF kept[i].path = path THEN [path |-> path, kind |-> kind]
                 ELSE kept[i]] \o sub
    ELSE Append(acc, [path |-> path, kind |-> kind]) \o sub

\* parse_tree_to_dict (appv2.py lines 54-64, appv3.py lines 57-67): the
\* mapping of the item `parent`, whose keys lie under the path `node`
RECURSIVE ParseTreeToDict(_, _, _), ParseItems(_, _, _, _)
ParseTreeToDict(t, parent, node) ==
    ParseItems(t, GetChildren(t, parent), node, <<>>)

ParseItems(t, items, node, acc) ==
    IF items = <<>> THEN acc
    ELSE LET item == Head(items)
             path == Append(node, item.text)
             sub  == IF item.type = "folder"
                     THEN ParseTreeToDict(t, item.id, path) ELSE <<>>
         IN  ParseItems(t, Tail(items), node,
                        AssignKey(acc, path, item.type, sub))

\* add_project_element (appv2.py lines 37-51): the validation of the name
NameAccepted(element_name, element_type) ==
    IF element_type = "folder" THEN "." \notin Range(element_name)
    ELSE "." \in Range(element_name)

\* tree.insert(parent, 'end', text=element_name) and tree.set(node, "type", ...)
InsertItem(t, id, parent, element_name, element_type) ==
    Append(t, [id |-> id, parent |-> parent, text |-> element_name,
               type |-> element_type])

\* tree.parent(selected_item[0]), "" (here 0) when nothing is selected
SiblingParent(t, sel) == IF sel = 0 THEN 0 ELSE ItemOf(t, sel).parent

\* tree.delete(item) (appv2.py line 194), root.removeChild(item) (appv3.py
\* line 354): the item goes, and with it everything under it
DeleteItem(t, id) == SelectSeq(t, LAMBDA it : ~IsWithin(t, it.id, id))

\* appv2.py line 194 deletes whatever is selected; appv3.py line 354 calls
\* removeChild only when the selected item has no parent
TreeAfterDelete(im, t, sel) ==
    IF im = "appv3" /\ ItemOf(t, sel).parent # 0 THEN t
    ELSE DeleteItem(t, sel)

EditorInit ==
    /\ ParserIdle
    /\ MaterializerIdle
    /\ RaceIdle
    /\ HistoryIdle
    /\ editor_impl \in EditorImpls
    /\ tree = <<>>
    /\ selection = 0
    /\ next_id = 1
    /\ last_delete = <<>>

\* the user clicks an item
SelectItem ==
    /\ \E id \in ItemIds(tree) : selection' = id
    /\ selection' # selection
    /\ UNCHANGED <<editor_impl, tree, next_id, last_delete, pvars, mvars, rvars, hvars>>

AddElement(parent, element_name, element_type) ==
    /\ next_id <= MaxItems
    /\ IF NameAccepted(element_name, element_type)
       THEN /\ tree' = InsertItem(tree, next_id, parent, element_name, element_type)
            /\ next_id' = next_id + 1
       ELSE UNCHANGED <<tree, next_id>>
    /\ UNCHANGED <<editor_impl, selection, last_delete, pvars, mvars, rvars, hvars>>

\* add_sibling_folder (appv2.py lines 156-164)
AddSiblingFolder ==
    \E element_name \in ElementNames :
        AddElement(SiblingParent(tree, selection), element_name, "folder")

\* add_sibling_file (appv2.py lines 166-174)
AddSiblingFile ==
    \E element_name \in ElementNames :
        AddElement(SiblingParent(tree, selection), element_name, "file")

\* add_child_folder (appv2.py lines 176-187)
AddChildFolder ==
    /\ selection # 0
    /\ ItemOf(tree, selection).type = "folder"
    /\ \E element_name \in ElementNames :
           AddElement(selection, element_name, "folder")

\* delete_selected_item (appv2.py lines 189-194, appv3.py lines 348-354)
DeleteSelectedItem ==
    /\ selection # 0
    /\ tree' = TreeAfterDelete(editor_impl, tree, selection)
    /\ selection' = IF selection \in ItemIds(tree') THEN selection ELSE 0
    /\ last_delete' = <<[before |-> tree, item |-> selection, after |-> tree']>>
    /\ UNCHANGED <<editor_impl, next_id, pvars, mvars, rvars, hvars>>

EditorNext ==
    \/ SelectItem
    \/ AddSiblingFolder
    \/ AddSiblingFile
    \/ AddChildFolder
    \/ DeleteSelectedItem

SpecEditor == EditorInit /\ [][EditorNext]_vars

(***************************************************************************)
(* Reading the histories                                                   *)
(***************************************************************************)
\* the lines the current run has written
RunLog == SubSeq(log, runStart + 1, Len(log))

LinesOf(kinds, node) ==
    {i \in 1..Len(RunLog) : RunLog[i].kind \in kinds /\ RunLog[i].node = node}

FailureKinds == {"error_folder", "perm_denied", "os_error", "failed", "failed_file"}

\* the current run has finished with this node: it is no longer the item
\* the innermost call stands at
Handled(k) ==
    k \in 1..Len(visited) /\ (k < Len(visited) \/ pc \in {"loop", "done"})

AnswersFor(node) == {i \in 1..Len(asked) : asked[i].node = node}

ActsOn(node) == {i \in 1..Len(acts) : acts[i].node = node}

\* the children of a node, oldest first, read off the entry sequence
ChildrenOf(d, node) ==
    SelectSeq(d, LAMBDA e : Len(e.path) = Len(node) + 1
                            /\ SubSeq(e.path, 1, Len(node)) = node)

\* depth-first pre-order of the hierarchy below a node
RECURSIVE PreOrderFrom(_, _, _)
PreOrderFrom(d, cs, n) ==
    IF n > Len(cs) THEN <<>>
    ELSE <<cs[n].path>>
         \o PreOrderFrom(d, ChildrenOf(d, cs[n].path), 1)
         \o PreOrderFrom(d, cs, n + 1)

PreOrder(d) == PreOrderFrom(d, ChildrenOf(d, <<>>), 1)

PreIndex(d, node) == CHOOSE i \in 1..Len(PreOrder(d)) : PreOrder(d)[i] = node

\* the filesystem path of a node: its keys joined one by one onto BasePath
RECURSIVE NodePath(_)
NodePath(node) ==
    IF node = <<>> THEN BasePath
    ELSE CurrentPath(NodePath(Parent(node)), node[Len(node)])

(***************************************************************************)
(* C1: a run of main.py's create_project_structure that ends without an    *)
(* unexpected failure writes exactly one "completed" line, and it is the   *)
(* last line of the run; {"A": {"B": null}} into an empty base path gives  *)
(* three lines in all.                                                     *)
(***************************************************************************)
C1_OneCompletionLine ==
    (impl = "main" /\ pc = "done"
        /\ \A i \in 1..Len(RunLog) : RunLog[i].kind # "failed")
    => /\ Cardinality({i \in 1..Len(RunLog) : RunLog[i].kind = "completed"}) = 1
       /\ RunLog[Len(RunLog)].kind = "completed"
       /\ (structure = <<Folder(<<kA>>), File(<<kA, kB>>)>>
           /\ run = "first" /\ fs1 = EmptyBase)
          => Len(RunLog) = 3

(***************************************************************************)
(* Reading a text line by line, independently of the stack                 *)
(***************************************************************************)
InputLine(n) == lines[n]

NonBlank(n) == CleanedLine(InputLine(n)) # <<>>

\* the characters stripped from the start of a line, and nothing else
StrippedPrefix(line) ==
    SubSeq(line, 1, Len(line) - Len(LStrip(line, TreeChars)))

PrefixDepth(line) ==
    IF TAB \in Range(StrippedPrefix(line))
    THEN Count(StrippedPrefix(line), TAB)
    ELSE Len(StrippedPrefix(line)) \div 4

EndsWithSlashOrHasNoDot(label) ==
    label[Len(label)] = "/" \/ \A i \in 1..Len(label) : label[i] # "."

\* the record of line n in the history, if the line was inserted
PlacedAt(n) == {k \in 1..Len(placed) : placed[k].line = n}

\* folder line j is still open when line n arrives, and shallower than it
OpenAbove(j, n) ==
    /\ j < n
    /\ NonBlank(j)
    /\ EndsWithSlashOrHasNoDot(CleanedLine(InputLine(j)))
    /\ Depth(InputLine(j)) < Depth(InputLine(n))
    /\ \A m \in (j + 1)..(n - 1) :
         NonBlank(m) => Depth(InputLine(m)) > Depth(InputLine(j))

\* the nearest such folder line, 0 for the root mapping
ParentLine(n) ==
    IF \E j \in 1..(n - 1) : OpenAbove(j, n)
    THEN CHOOSE j \in 1..(n - 1) :
             OpenAbove(j, n) /\ \A i \in 1..(n - 1) : OpenAbove(i, n) => i <= j
    ELSE 0

LabelKey(n) ==
    IF EndsWithSlashOrHasNoDot(CleanedLine(InputLine(n)))
    THEN RStrip(CleanedLine(InputLine(n)), {"/"})
    ELSE CleanedLine(InputLine(n))

RECURSIVE ExpectedNode(_)
ExpectedNode(n) ==
    IF n = 0 THEN <<>> ELSE Append(ExpectedNode(ParentLine(n)), LabelKey(n))

(***************************************************************************)
(* C2: every non-blank line handled so far was inserted into the mapping   *)
(* of the nearest still-open folder line of lesser depth, or into the root *)
(* mapping when there is none.                                             *)
(***************************************************************************)
C2_InsertedUnderNearestOpenFolder ==
    \A n \in 1..idx :
        NonBlank(n) =>
            \E k \in PlacedAt(n) :
                /\ placed[k].parent = ExpectedNode(ParentLine(n))
                /\ placed[k].key = LabelKey(n)

(***************************************************************************)
(* C3: the depth the parser uses for a line is the number of tabs in the   *)
(* prefix stripped from the start of the line when that prefix holds a     *)
(* tab, and otherwise the length of that prefix divided by 4; nothing      *)
(* after the prefix changes it.                                            *)
(***************************************************************************)
C3_DepthFromStrippedPrefixOnly ==
    \A k \in 1..Len(placed) :
        placed[k].depth = PrefixDepth(InputLine(placed[k].line))

(***************************************************************************)
(* C4: a label is a folder exactly when it ends with "/" or holds no ".";  *)
(* right after a folder line its entry is a nested mapping, which is the   *)
(* top of the stack; right after a file line its entry is the file marker  *)
(* and the stack holds no entry for it; the example text of the            *)
(* specification parses to the hierarchy given there.                      *)
(***************************************************************************)
ExampleText ==
    JoinLines(<< <<"P">>,
                 FourSpaces \o <<"m", ".", "p", "y">>,
                 FourSpaces \o <<"u", "/">>,
                 FourSpaces \o FourSpaces \o <<"h", ".", "p", "y">> >>)

ExampleHierarchy ==
    << Folder(<< <<"P">> >>),
       File(<< <<"P">>, <<"m", ".", "p", "y">> >>),
       Folder(<< <<"P">>, <<"u">> >>),
       File(<< <<"P">>, <<"u">>, <<"h", ".", "p", "y">> >>) >>

C4_JustInserted ==
    {k \in 1..Len(placed) : k = Len(placed) /\ placed[k].line = idx}

C4_FolderIffSlashOrNoDot ==
    /\ \A k \in 1..Len(placed) :
         placed[k].folder
           <=> EndsWithSlashOrHasNoDot(CleanedLine(InputLine(placed[k].line)))
    /\ \A k \in C4_JustInserted :
         LET node == Append(placed[k].parent, placed[k].key) IN
         IF placed[k].folder
         THEN /\ EntryAt(structure_dict, node).kind = "folder"
              /\ stack[Len(stack)] = [node |-> node, depth |-> placed[k].depth]
         ELSE /\ EntryAt(structure_dict, node).kind = "file"
              /\ stack[Len(stack)].node = placed[k].parent
    /\ ParseTreeStructureToDict(ExampleText).raised = "none"
    /\ ParseTreeStructureToDict(ExampleText).dict = ExampleHierarchy

(***************************************************************************)
(* C5: writing the returned hierarchy back as text, one line per node in   *)
(* pre-order, each child one unit (four blanks, or one tab) deeper than    *)
(* its folder, and parsing that text gives the same hierarchy.             *)
(***************************************************************************)
IndentUnit(convention) == IF convention = "tabs" THEN <<TAB>> ELSE FourSpaces

RECURSIVE Indentation(_, _)
Indentation(convention, n) ==
    IF n = 0 THEN <<>>
    ELSE IndentUnit(convention) \o Indentation(convention, n - 1)

\* a folder is written with the trailing separator, a file as it is
RenderedLine(d, node, convention) ==
    Indentation(convention, Len(node) - 1)
        \o node[Len(node)]
        \o (IF EntryAt(d, node).kind = "folder" THEN <<"/">> ELSE <<>>)

Render(d, convention) ==
    JoinLines([i \in 1..Len(PreOrder(d)) |->
                  RenderedLine(d, PreOrder(d)[i], convention)])

\* a hierarchy up to the order of insertion across different mappings
Canonical(d) == [i \in 1..Len(PreOrder(d)) |-> EntryAt(d, PreOrder(d)[i])]

\* every line of the text is some units of the convention, then its label
OnlyIndentedWith(convention) ==
    \A n \in 1..Len(lines) :
        \E k \in 0..Len(InputLine(n)) :
            InputLine(n) = Indentation(convention, k) \o CleanedLine(InputLine(n))

KindOf(node) == EntryAt(structure, node).kind

\* the sibling listed right after a node, or <<>> when it is the last one
SiblingAfter(node) ==
    LET sibs == ChildrenOf(structure, Parent(node))
        at   == CHOOSE i \in 1..Len(sibs) : sibs[i].path = node
    IN  IF at < Len(sibs) THEN sibs[at + 1].path ELSE <<>>

Declined(node) == \E i \in AnswersFor(node) : ~asked[i].response

Confirmed(node) == \E i \in AnswersFor(node) : asked[i].response

AllDeclined == \A i \in 1..Len(asked) : ~asked[i].response

\* every node's path exists in filesystem f
AllNodesExist(f) ==
    \A i \in 1..Len(structure) : Exists(f, NodePath(structure[i].path))

C7_AsksOnce(k) ==
    Cardinality(AnswersFor(visited[k].node))
        = (IF visited[k].was = "absent" THEN 0 ELSE 1)

C7_SkipOnNo(k) ==
    Declined(visited[k].node) =>
        /\ Cardinality(LinesOf({"skipped"}, visited[k].node)) = 1
        /\ LinesOf({"created_file"}, visited[k].node) = {}
        /\ ActsOn(visited[k].node) = {}
        /\ (k < Len(visited) /\ SiblingAfter(visited[k].node) # <<>>)
           => visited[k + 1].node = SiblingAfter(visited[k].node)

C7_Created(k) ==
    /\ Cardinality(LinesOf({"created_file"}, visited[k].node)) = 1
    /\ Exists(fs, visited[k].path)
    /\ fs[visited[k].path] = "empty"

C7_FailedUntouched(k) ==
    /\ LinesOf({"created_file"}, visited[k].node) = {}
    /\ ActsOn(visited[k].node) = {}
    /\ Cardinality(LinesOf({"perm_denied", "os_error"}, visited[k].node))
         + Cardinality(LinesOf({"failed"}, Parent(visited[k].node))) = 1

C7_NoTruncateWithoutYes(k) ==
    \A a \in ActsOn(visited[k].node) :
        acts[a].op = "truncate" => Confirmed(visited[k].node)

C7_FileVisits ==
    {k \in 1..Len(visited) : Handled(k) /\ KindOf(visited[k].node) = "file"}

C7_FileNodeAlwaysCreated ==
    impl = "main" =>
      \A k \in C7_FileVisits :
        /\ C7_AsksOnce(k)
        /\ C7_SkipOnNo(k)
        /\ ~Declined(visited[k].node) => C7_Created(k)
        /\ C7_NoTruncateWithoutYes(k)

(***************************************************************************)
(* C7, amended: on yes, or when the path did not exist, main.py opens the  *)
(* path for writing; when that succeeds the path is afterwards an empty    *)
(* file and one success line is logged, and when it fails exactly one      *)
(* failure line is logged and the path is left as it was.  The rest is as  *)
(* claimed.                                                                *)
(***************************************************************************)
C7_FileNodeCreatedOrFailureLogged ==
    impl = "main" =>
      \A k \in C7_FileVisits :
        /\ C7_AsksOnce(k)
        /\ C7_SkipOnNo(k)
        /\ ~Declined(visited[k].node) => (C7_Created(k) \/ C7_FailedUntouched(k))
        /\ C7_NoTruncateWithoutYes(k)

C7_Witness ==
    /\ impl = "main"
    /\ \E k \in C7_FileVisits :
         /\ visited[k].was = "data"
         /\ Confirmed(visited[k].node)
         /\ fs[visited[k].path] = "empty"
         /\ \E a \in ActsOn(visited[k].node) : acts[a].op = "truncate"
    /\ \E k \in C7_FileVisits : Declined(visited[k].node)

(***************************************************************************)
(* C8: when creating a folder node fails, the materializer logs exactly    *)
(* one failure line for it, logs nothing and changes nothing for any of    *)
(* its descendants, and still handles every sibling listed after it.       *)
(***************************************************************************)
C8_FailedFolders ==
    {RunLog[i].node : i \in {j \in 1..Len(RunLog) : RunLog[j].kind = "error_folder"}}

C8_FailedFolderSubtreeSkipped ==
    \A v \in C8_FailedFolders :
        /\ Cardinality(LinesOf({"error_folder"}, v)) = 1
        /\ \A i \in 1..Len(RunLog) : ~IsStrictPrefix(v, RunLog[i].node)
        /\ \A a \in 1..Len(acts) : ~IsStrictPrefix(v, acts[a].node)
        /\ (pc = "done" /\ LinesOf({"failed"}, Parent(v)) = {})
           => \A s \in 1..Len(structure) :
                 (Parent(structure[s].path) = Parent(v)
                    /\ PreIndex(structure, structure[s].path) > PreIndex(structure, v))
                 => \E k \in 1..Len(visited) : visited[k].node = structure[s].path

C10_ItemLines ==
    SelectSeq(RunLog, LAMBDA l : l.kind \notin {"completed", "failed"})

C10_PreOrder ==
    /\ \A i, j \in 1..Len(visited) :
         i < j => PreIndex(structure, visited[i].node)
                    < PreIndex(structure, visited[j].node)
    /\ \A i, j \in 1..Len(acts) :
         i < j => PreIndex(structure, acts[i].node)
                    < PreIndex(structure, acts[j].node)
    /\ \A i, j \in 1..Len(C10_ItemLines) :
         i < j => PreIndex(structure, C10_ItemLines[i].node)
                    < PreIndex(structure, C10_ItemLines[j].node)
    /\ \A i \in 1..Len(acts) :
         \E k \in 1..Len(visited) : visited[k].node = acts[i].node
    /\ \A i \in 1..Len(C10_ItemLines) :
         \E k \in 1..Len(visited) : visited[k].node = C10_ItemLines[i].node

C10_Witness ==
    /\ pc = "done"
    /\ Len(visited) = 5
    /\ Len(acts) = 5
    /\ impl = "main"

(***************************************************************************)
(* C11, as claimed: when main.py fails to create a file node it logs       *)
(* exactly one failure line for that file, the permission-denied line if   *)
(* and only if the cause is a permission denial and the OS-error line      *)
(* otherwise; the siblings after the file are still processed and the run  *)
(* ends with the completion line.                                          *)
(***************************************************************************)
C11_FileFailures == {i \in 1..Len(failures) : failures[i].op = "open"}

C11_LaterSiblingsVisited(node) ==
    \A s \in 1..Len(structure) :
        (Parent(structure[s].path) = Parent(node)
            /\ PreIndex(structure, structure[s].path) > PreIndex(structure, node))
        => \E k \in 1..Len(visited) : visited[k].node = structure[s].path

C11_OneLineOfTheRightKind(i) ==
    /\ Cardinality(LinesOf(FailureKinds, failures[i].node)) = 1
    /\ LinesOf({"perm_denied"}, failures[i].node) # {}
         <=> failures[i].exc = "PermissionError"
    /\ LinesOf({"os_error"}, failures[i].node) # {}
         <=> failures[i].exc # "PermissionError"

C11_FileFailureLoggedByKind ==
    impl = "main" =>
      \A i \in C11_FileFailures :
          /\ C11_OneLineOfTheRightKind(i)
          /\ pc = "done"
             => /\ C11_LaterSiblingsVisited(failures[i].node)
                /\ RunLog[Len(RunLog)].kind = "completed"

(***************************************************************************)
(* What main.py does on a failure of open(): for PermissionError or        *)
(* another OSError the above, as long as no unexpected failure ends the    *)
(* call that iterates the siblings, or the top-level call; for any other   *)
(* exception it logs no line for the file and ends the call with the       *)
(* summary line, the siblings after the file left out.                     *)
(***************************************************************************)
FileFailureInMain ==
    impl = "main" =>
      \A i \in C11_FileFailures :
          IF failures[i].exc \in {"PermissionError", "OSError"}
          THEN /\ C11_OneLineOfTheRightKind(i)
               /\ (pc = "done" /\ LinesOf({"failed"}, Parent(failures[i].node)) = {})
                  => C11_LaterSiblingsVisited(failures[i].node)
               /\ (pc = "done" /\ LinesOf({"failed"}, <<>>) = {})
                  => RunLog[Len(RunLog)].kind = "completed"
          ELSE /\ LinesOf(FailureKinds, failures[i].node) = {}
               /\ Cardinality(LinesOf({"failed"}, Parent(failures[i].node))) = 1
               /\ \A k \in 1..Len(visited) :
                    Parent(visited[k].node) = Parent(failures[i].node)
                    => PreIndex(structure, visited[k].node)
                         <= PreIndex(structure, failures[i].node)

(***************************************************************************)
(* C12: an unexpected failure in main.py's create_project_structure, at    *)
(* any nesting level, ends the whole run: from the moment its summary line *)
(* is logged the run is over, that line is the last of the run and the     *)
(* only one of its kind, and the run has no completion line.               *)
(***************************************************************************)
C12_SummaryLines == {i \in 1..Len(RunLog) : RunLog[i].kind = "failed"}

C12_UnexpectedFailureAbortsRun ==
    (impl = "main" /\ C12_SummaryLines # {})
    => /\ pc = "done"
       /\ frames = <<>>
       /\ C12_SummaryLines = {Len(RunLog)}
       /\ \A i \in 1..Len(RunLog) : RunLog[i].kind # "completed"

(***************************************************************************)
(* C13: parse_tree_structure_to_dict never raises: at every point of the   *)
(* loop, for every input text, no exception has left the function.         *)
(***************************************************************************)
C13_NeverRaises == raised = "none"

(***************************************************************************)
(* C14: an entry of the hierarchy, once inserted as a file or as a folder, *)
(* is still there with the same kind after every later line: no line       *)
(* replaces a folder and its children by the file marker, none turns a     *)
(* file into a folder.                                                     *)
(***************************************************************************)
C14_KindNeverChanges ==
    [][\A i \in 1..Len(structure_dict) :
           \E j \in 1..Len(structure_dict') :
               structure_dict'[j] = structure_dict[i]]_vars

(***************************************************************************)
(* C15: a line that names a folder already present as a folder under the   *)
(* same parent leaves the hierarchy as it is and makes that folder's       *)
(* mapping the top of the stack; a line inserted under a folder is added   *)
(* to the folder's one mapping, next to all the names already in it.       *)
(***************************************************************************)
C15_NamesUnder(d, node) ==
    {d[i].path : i \in {j \in 1..Len(d) : Len(d[j].path) = Len(node) + 1
                                           /\ IsStrictPrefix(node, d[j].path)}}

C15_ReusesExistingFolder ==
    [][Len(placed') = Len(placed) + 1 =>
         LET rec  == placed'[Len(placed')]
             node == Append(rec.parent, rec.key)
         IN  /\ (rec.folder /\ IsDict(structure_dict, node))
                => /\ structure_dict' = structure_dict
                   /\ stack'[Len(stack')].node = node
             /\ C15_NamesUnder(structure_dict', rec.parent)
                  = C15_NamesUnder(structure_dict, rec.parent) \cup {node}
             /\ Cardinality({i \in 1..Len(structure_dict') :
                                structure_dict'[i].path = node}) = 1]_vars

C15_Witness ==
    /\ Returned
    /\ text = MergeText
    /\ \E j, k \in 1..Len(placed) :
         /\ j < k
         /\ placed[j].folder /\ placed[k].folder
         /\ placed[j].parent = placed[k].parent
         /\ placed[j].key = placed[k].key
    /\ structure_dict = << Folder(<< <<"a">> >>),
                           File(<< <<"a">>, <<"b", ".", "c">> >>),
                           Folder(<< <<"a">>, <<"a">> >>) >>

(***************************************************************************)
(* C16: every key at every level of the hierarchy that                     *)
(* parse_tree_structure_to_dict returns is a non-empty string.             *)
(***************************************************************************)
C16_KeysNonEmpty ==
    Returned =>
      \A i \in 1..Len(structure_dict) :
          \A c \in 1..Len(structure_dict[i].path) :
              structure_dict[i].path[c] # <<>>

(***************************************************************************)
(* C17: load_history returns the empty history, without raising, when the  *)
(* history file is missing, empty or not valid JSON; save_history on such  *)
(* a file leaves it holding exactly the record just saved.                 *)
(***************************************************************************)
C17_NothingUsable == {Absent} \cup CorruptFiles

C17_CorruptHistoryIsEmpty ==
    /\ \A i \in 1..Len(loaded) :
         loaded[i].file \in C17_NothingUsable
         => loaded[i].result = PyList(<<>>)
    /\ \A i \in 1..Len(last_save) :
         last_save[i].before \in C17_NothingUsable
         => /\ last_save[i].raised = "none"
            /\ last_save[i].after.exists
            /\ SelectSeq(last_save[i].after.content,
                         LAMBDA c : c \notin JsonWhitespace)
                 = <<"[", last_save[i].record, "]">>

(***************************************************************************)
(* C18: from an absent history file or one holding a JSON array, after the *)
(* calls save_history(s1), ..., save_history(sn) load_history returns the  *)
(* records the file held at the start followed by s1, ..., sn.             *)
(***************************************************************************)
C18_PriorRecords ==
    IF prior_file = FileOf(<<"[", "r2", ",", "r1", "]">>) THEN <<"r2", "r1">>
    ELSE IF prior_file = FileOf(JsonDump(<<"r1">>)) THEN <<"r1">>
    ELSE <<>>

C18_SavesAppendInOrder ==
    prior_file \in {Absent} \cup ArrayFiles
    => \A i \in 1..Len(loaded) :
           loaded[i].result = PyList(C18_PriorRecords \o saves)

C18_Witness ==
    /\ prior_file = FileOf(<<"[", "r2", ",", "r1", "]">>)
    /\ saves = <<"r2", "r1">>
    /\ Len(loaded) = 1
    /\ loaded[1].result = PyList(<<"r2", "r1", "r2", "r1">>)

(***************************************************************************)
(* C19: when another process creates the path of a node between main.py's  *)
(* existence check and its create step, a folder node that appeared as a   *)
(* folder gets no failure line and its children are processed next, and a  *)
(* file node that appeared as a file is not truncated unless the overwrite *)
(* question was asked and answered yes.                                    *)
(***************************************************************************)
C19_Intrusions == {i \in 1..Len(intruded) : intruded[i].run = run}

C19_VisitOf(node) == {k \in 1..Len(visited) : visited[k].node = node}

C19_AppearedPathIsOrdinaryCase ==
    impl = "main" =>
      \A i \in C19_Intrusions : \A k \in C19_VisitOf(intruded[i].node) :
          Handled(k) =>
            /\ (KindOf(intruded[i].node) = "folder" /\ intruded[i].kind = "dir")
               => /\ LinesOf({"error_folder"}, intruded[i].node) = {}
                  /\ ChildrenOf(structure, intruded[i].node) # <<>>
                     => IF k < Len(visited)
                        THEN visited[k + 1].node
                               = ChildrenOf(structure, intruded[i].node)[1].path
                        ELSE TopFrame.node = intruded[i].node
            /\ (KindOf(intruded[i].node) = "file" /\ intruded[i].kind = "data")
               => \A a \in ActsOn(intruded[i].node) :
                      acts[a].op = "truncate" => Confirmed(intruded[i].node)

(***************************************************************************)
(* C20: delete_selected_item removes the selected item and everything      *)
(* under it from the tree, at the top level and below it, and leaves every *)
(* other item as it was; the hierarchy parse_tree_to_dict then returns     *)
(* holds the item's path only if a remaining item of the same name has it. *)
(***************************************************************************)
\* the keys from the top level down to an item
RECURSIVE C20_TextPath(_, _)
C20_TextPath(t, id) ==
    IF id = 0 THEN <<>>
    ELSE Append(C20_TextPath(t, ItemOf(t, id).parent), ItemOf(t, id).text)

C20_Gone(d) ==
    {d.before[i].id : i \in {j \in 1..Len(d.before) :
                                IsWithin(d.before, d.before[j].id, d.item)}}

C20_DeleteRemovesSubtree ==
    \A n \in 1..Len(last_delete) :
        LET d    == last_delete[n]
            path == C20_TextPath(d.before, d.item)
            dict == ParseTreeToDict(d.after, 0, <<>>)
        IN  /\ ItemIds(d.after) \cap C20_Gone(d) = {}
            /\ d.after = SelectSeq(d.before, LAMBDA it : it.id \notin C20_Gone(d))
            /\ (\A id \in ItemIds(d.after) : C20_TextPath(d.after, id) # path)
               => \A i \in 1..Len(dict) :
                      dict[i].path # path /\ ~IsStrictPrefix(path, dict[i].path)

(***************************************************************************)
(* C21: at every point of a parse the stack is non-empty, its bottom entry *)
(* is the root mapping with depth -1, the depth of every line is at least  *)
(* 0 and the depths of the stack entries strictly increase from bottom to  *)
(* top, so that the pop loop never removes the root entry.                 *)
(***************************************************************************)
C21_StackWellFormed ==
    /\ stack # <<>>
    /\ stack[1] = [node |-> <<>>, depth |-> -1]
    /\ \A n \in 1..Len(lines) : Depth(InputLine(n)) >= 0
    /\ \A k \in 1..Len(placed) : placed[k].depth >= 0
    /\ \A i, j \in 1..Len(stack) : i < j => stack[i].depth < stack[j].depth
    /\ raised # "IndexError"

C21_Witness ==
    /\ idx = 3
    /\ Len(placed) = 3
    /\ placed[1].depth = 0 /\ placed[1].folder
    /\ placed[2].depth = 1 /\ placed[2].folder
    /\ placed[3].depth = 0
    /\ placed[3].parent = <<>>
    /\ stack[1] = [node |-> <<>>, depth |-> -1]

(***************************************************************************)
(* C22: whatever the text, every folder and every file that                *)
(* create_project_structure creates or truncates for the parsed hierarchy  *)
(* lies strictly inside the base path.                                     *)
(***************************************************************************)
C22_CreatedInsideBase ==
    \A a \in 1..Len(acts) : IsStrictPrefix(BasePath, acts[a].path)

====
